---------------------------- MODULE Spec2Model ----------------------------
(* Model of the Markdown chunking pipeline of ingestion/chunking.py:       *)
(* MarkdownHeaderChunker.chunk and its four stages.  A text is a sequence  *)
(* of one-character strings; a Document is a record                        *)
(* [page_content, metadata]; a metadata dict is a function from key        *)
(* strings ("Header 1", ...) to titles.                                    *)
EXTENDS Integers, Sequences, FiniteSets, TLC

(***************************************************************************)
(* Bounds of the model.                                                    *)
(***************************************************************************)
MaxLines == 3
MaxGroups == 2
MaxFrags == 3

(***************************************************************************)
(* Strings as character sequences.                                         *)
(***************************************************************************)
NL == <<"\n">>

IsSpace(c) == c \in {" ", "\n", "\t"}

RECURSIVE LStrip(_)
LStrip(s) ==
    IF s = <<>> THEN <<>>
    ELSE IF IsSpace(Head(s)) THEN LStrip(Tail(s)) ELSE s

RECURSIVE RStrip(_)
RStrip(s) ==
    IF s = <<>> THEN <<>>
    ELSE IF IsSpace(s[Len(s)]) THEN RStrip(SubSeq(s, 1, Len(s) - 1)) ELSE s

\* str.strip()
Strip(s) == RStrip(LStrip(s))

\* str.replace("\x00", "")
RemoveNul(s) == SelectSeq(s, LAMBDA c : c # "NUL")

\* str.startswith(p)
StartsWith(s, p) == Len(p) <= Len(s) /\ SubSeq(s, 1, Len(p)) = p

\* sep.join(parts)
RECURSIVE Join(_, _)
Join(parts, sep) ==
    IF parts = <<>> THEN <<>>
    ELSE IF Len(parts) = 1 THEN parts[1]
    ELSE parts[1] \o sep \o Join(Tail(parts), sep)

\* text.split("\n"): always at least one (possibly empty) line
RECURSIVE SplitNL(_, _, _)
SplitNL(s, i, cur) ==
    IF i > Len(s) THEN <<cur>>
    ELSE IF s[i] = "\n" THEN <<cur>> \o SplitNL(s, i + 1, <<>>)
    ELSE SplitNL(s, i + 1, Append(cur, s[i]))

SplitLines(s) == SplitNL(s, 1, <<>>)

\* sep.count("#")
CountHash(s) == Len(SelectSeq(s, LAMBDA c : c = "#"))

(***************************************************************************)
(* Metadata dicts.                                                         *)
(***************************************************************************)
EmptyMeta == [k \in {} |-> <<>>]

\* {**d, key: value}
DictSet(d, key, value) ==
    [k \in (DOMAIN d) \cup {key} |-> IF k = key THEN value ELSE d[k]]

\* d.pop(key)
DictPop(d, key) == [k \in (DOMAIN d) \ {key} |-> d[k]]

\* {**parent, **child}: the child's entries win
DictMerge(parent, child) ==
    [k \in (DOMAIN parent) \cup (DOMAIN child) |->
        IF k \in DOMAIN child THEN child[k] ELSE parent[k]]

Doc(content, meta) == [page_content |-> content, metadata |-> meta]

\* len(doc.page_content)
Size(doc) == Len(doc.page_content)

(***************************************************************************)
(* Stage 1: header split.                                                  *)
(***************************************************************************)
\* f"{{'#' * i}}": the doubled braces are escapes, so the f-string has no
\* replacement field and every i gives the same nine characters {'#' * i}
HeaderSep(i) == <<"{", "'", "#", "'", " ", "*", " ", "i", "}">>

\* f"Header {i}"
HeaderName(i) ==
    <<"Header 1", "Header 2", "Header 3", "Header 4",
      "Header 5", "Header 6", "Header 7">>[i]

\* [(sep, name) for i in range(1, level + 1)]
HeadersToSplitOn(level) == [i \in 1..level |-> <<HeaderSep(i), HeaderName(i)>>]

\* MarkdownHeaderTextSplitter.__init__: sorted(..., key=len(sep), reverse=True),
\* a stable sort: insertion of each pair behind the pairs at least as long
RECURSIVE SortedInsert(_, _)
SortedInsert(sorted, h) ==
    IF sorted = <<>> THEN <<h>>
    ELSE IF Len(Head(sorted)[1]) >= Len(h[1])
         THEN <<Head(sorted)>> \o SortedInsert(Tail(sorted), h)
         ELSE <<h>> \o sorted

RECURSIVE SortHeaders(_)
SortHeaders(hs) ==
    IF hs = <<>> THEN <<>>
    ELSE SortedInsert(SortHeaders(SubSeq(hs, 1, Len(hs) - 1)), hs[Len(hs)])

\* the line is a header of separator sep: it starts with sep and sep is
\* the whole line or is followed by a space
IsHeaderLine(line, sep) ==
    /\ StartsWith(line, sep)
    /\ (Len(line) = Len(sep) \/ line[Len(sep) + 1] = " ")

\* index of the first pair of hs the line matches (the loop breaks there), or 0
RECURSIVE MatchHeader(_, _, _)
MatchHeader(line, hs, j) ==
    IF j > Len(hs) THEN 0
    ELSE IF IsHeaderLine(line, hs[j][1]) THEN j
    ELSE MatchHeader(line, hs, j + 1)

\* pop the headers of the same or a deeper level off the stack and drop
\* their names from initial_metadata
RECURSIVE PopHeaders(_, _, _)
PopHeaders(stack, initMeta, lvl) ==
    IF stack # <<>> /\ stack[Len(stack)].level >= lvl
    THEN PopHeaders(SubSeq(stack, 1, Len(stack) - 1),
                    DictPop(initMeta, stack[Len(stack)].name), lvl)
    ELSE [stack |-> stack, initMeta |-> initMeta]

LineEntry(cur, meta) == [content |-> Join(cur, NL), metadata |-> meta]

\* one iteration of the loop over the lines in split_text
SplitTextStep(st, rawLine, hs) ==
    LET line == Strip(rawLine)
        j == MatchHeader(line, hs, 1)
    IN  IF j > 0
        THEN LET sep == hs[j][1]
                 name == hs[j][2]
                 popped == PopHeaders(st.stack, st.initMeta, CountHash(sep))
                 data == Strip(SubSeq(line, Len(sep) + 1, Len(line)))
                 header == [level |-> CountHash(sep), name |-> name, data |-> data]
                 initMeta == DictSet(popped.initMeta, name, data)
             IN  [lwm |-> IF st.cur # <<>>
                          THEN Append(st.lwm, LineEntry(st.cur, st.curMeta))
                          ELSE st.lwm,
                  cur |-> <<line>>,
                  curMeta |-> initMeta,
                  stack |-> Append(popped.stack, header),
                  initMeta |-> initMeta]
        ELSE IF line # <<>>
        THEN [st EXCEPT !.cur = Append(st.cur, line), !.curMeta = st.initMeta]
        ELSE IF st.cur # <<>>
        THEN [st EXCEPT !.lwm = Append(st.lwm, LineEntry(st.cur, st.curMeta)),
                        !.cur = <<>>, !.curMeta = st.initMeta]
        ELSE [st EXCEPT !.curMeta = st.initMeta]

RECURSIVE SplitTextLoop(_, _, _, _)
SplitTextLoop(lines, i, st, hs) ==
    IF i > Len(lines)
    THEN IF st.cur # <<>> THEN Append(st.lwm, LineEntry(st.cur, st.curMeta))
         ELSE st.lwm
    ELSE SplitTextLoop(lines, i + 1, SplitTextStep(st, lines[i], hs), hs)

\* MarkdownHeaderTextSplitter.aggregate_lines_to_chunks: consecutive entries
\* of equal metadata are joined with two spaces and a newline; with
\* strip_headers=False an entry whose last line starts with "#" also takes
\* in a following entry of more metadata keys
RECURSIVE AggregateLines(_, _, _)
AggregateLines(lwm, i, agg) ==
    IF i > Len(lwm) THEN agg
    ELSE LET line == lwm[i]
             n == Len(agg)
             joined == agg[n].content \o <<" ", " ", "\n">> \o line.content
             lastLine == LET ls == SplitLines(agg[n].content) IN ls[Len(ls)]
         IN  IF n > 0 /\ agg[n].metadata = line.metadata
             THEN AggregateLines(lwm, i + 1,
                      [agg EXCEPT ![n] = [content |-> joined,
                                          metadata |-> agg[n].metadata]])
             ELSE IF /\ n > 0
                     /\ Cardinality(DOMAIN agg[n].metadata)
                            < Cardinality(DOMAIN line.metadata)
                     /\ lastLine[1] = "#"
             THEN AggregateLines(lwm, i + 1,
                      [agg EXCEPT ![n] = [content |-> joined,
                                          metadata |-> line.metadata]])
             ELSE AggregateLines(lwm, i + 1, Append(agg, line))

\* MarkdownHeaderTextSplitter(headers_to_split_on, strip_headers=False)
\*     .split_text(text)
SplitText(text, headers) ==
    LET hs == SortHeaders(headers)
        st0 == [lwm |-> <<>>, cur |-> <<>>, curMeta |-> EmptyMeta,
                stack |-> <<>>, initMeta |-> EmptyMeta]
        lwm == SplitTextLoop(SplitLines(text), 1, st0, hs)
        agg == AggregateLines(lwm, 1, <<>>)
    IN  [i \in 1..Len(agg) |-> Doc(agg[i].content, agg[i].metadata)]

\* sub_chunk.metadata = {**doc.metadata, **sub_chunk.metadata}
PropagateMeta(doc, subChunks) ==
    [i \in 1..Len(subChunks) |->
        Doc(subChunks[i].page_content,
            DictMerge(doc.metadata, subChunks[i].metadata))]

RECURSIVE SplitByHeadersRec(_, _, _)
\* the loop over splitter.split_text(text) of _split_by_headers
RECURSIVE SplitDocs(_, _, _, _)
SplitDocs(docs, i, level, cfg) ==
    IF i > Len(docs) THEN <<>>
    ELSE (IF Size(docs[i]) > cfg.max_chunk_size
          THEN PropagateMeta(docs[i],
                   SplitByHeadersRec(docs[i].page_content, level + 1, cfg))
          ELSE <<docs[i]>>)
         \o SplitDocs(docs, i + 1, level, cfg)

\* mutant: the depth test off by one (level >= max_header_level)
SplitByHeadersOffByOne(text, level, cfg) ==
    IF level >= cfg.max_header_level
    THEN <<Doc(text, EmptyMeta)>>
    ELSE SplitDocs(SplitText(text, HeadersToSplitOn(level)), 1, level, cfg)

\* _split_by_headers(text, level)
SplitByHeadersRec(text, level, cfg) ==
    IF level > cfg.max_header_level
    THEN <<Doc(text, EmptyMeta)>>
    ELSE SplitDocs(SplitText(text, HeadersToSplitOn(level)), 1, level, cfg)

(***************************************************************************)
(* The recursion of _split_by_headers once more, with its history: each    *)
(* fragment with the level of the call that emitted it and the oversized   *)
(* documents (outermost first) whose content was split again to reach it.  *)
(***************************************************************************)
TraceEntry(doc, level, parents) ==
    [doc |-> doc, level |-> level, parents |-> parents]

\* the loop over sub_chunks: the metadata of doc goes to each sub-chunk
PropagateTrace(doc, subTrace) ==
    [n \in 1..Len(subTrace) |->
        TraceEntry(Doc(subTrace[n].doc.page_content,
                       DictMerge(doc.metadata, subTrace[n].doc.metadata)),
                   subTrace[n].level,
                   <<doc>> \o subTrace[n].parents)]

RECURSIVE SplitTraceRec(_, _, _)
RECURSIVE SplitTraceDocs(_, _, _, _)
SplitTraceDocs(docs, n, level, cfg) ==
    IF n > Len(docs) THEN <<>>
    ELSE (IF Size(docs[n]) > cfg.max_chunk_size
          THEN PropagateTrace(docs[n],
                   SplitTraceRec(docs[n].page_content, level + 1, cfg))
          ELSE <<TraceEntry(docs[n], level, <<>>)>>)
         \o SplitTraceDocs(docs, n + 1, level, cfg)

\* mutant: the depth test off by one (level >= max_header_level)
SplitTraceOffByOne(text, level, cfg) ==
    IF level >= cfg.max_header_level
    THEN <<TraceEntry(Doc(text, EmptyMeta), level, <<>>)>>
    ELSE SplitTraceDocs(SplitText(text, HeadersToSplitOn(level)), 1, level, cfg)

\* _split_by_headers(text, level), with the history of each fragment
SplitTraceRec(text, level, cfg) ==
    IF level > cfg.max_header_level
    THEN <<TraceEntry(Doc(text, EmptyMeta), level, <<>>)>>
    ELSE SplitTraceDocs(SplitText(text, HeadersToSplitOn(level)), 1, level, cfg)

(***************************************************************************)
(* Stage 2: semantic split of the oversized chunks.                        *)
(***************************************************************************)
\* "".join(split_group.splits).replace("\x00", "").strip()
GroupContent(group) == Strip(RemoveNul(Join(group.splits, <<>>)))

\* the new_docs of _split_semantically: one Document per group whose
\* content is not empty, with the metadata of the chunk
RECURSIVE NewDocs(_, _, _)
NewDocs(groups, g, chunk) ==
    IF g > Len(groups) THEN <<>>
    ELSE (IF GroupContent(groups[g]) # <<>>
          THEN <<Doc(GroupContent(groups[g]), chunk.metadata)>>
          ELSE <<>>)
         \o NewDocs(groups, g + 1, chunk)

\* mutant: new_docs returned without the fallback to [chunk]
SplitSemanticallyNoFallback(chunk, outcome) ==
    IF outcome.kind = "error" THEN <<chunk>>
    ELSE IF outcome.splits # <<>> /\ outcome.splits[1] # <<>>
         THEN NewDocs(outcome.splits[1], 1, chunk)
         ELSE <<>>

\* _split_semantically(chunk), given what chunker.acall did: it raised
\* (kind "error") or returned semantic_splits (kind "result")
SplitSemantically(chunk, outcome) ==
    IF outcome.kind = "error" THEN <<chunk>>
    ELSE LET semantic_splits == outcome.splits
             new_docs == IF semantic_splits # <<>> /\ semantic_splits[1] # <<>>
                         THEN NewDocs(semantic_splits[1], 1, chunk)
                         ELSE <<>>
         IN  IF new_docs # <<>> THEN new_docs ELSE <<chunk>>

\* mutant: >= instead of > in the size test
OversizedOrEqual(chunk, cfg) == Size(chunk) >= cfg.max_chunk_size

\* len(chunk.page_content) > self.config.max_chunk_size
Oversized(chunk, cfg) == Size(chunk) > cfg.max_chunk_size

(***************************************************************************)
(* The semantic-split capability (StatisticalChunker.acall): it raises, or *)
(* returns no groups, or groups of consecutive pieces of the content.  The *)
(* content is cut into pieces where a word starts after white space, and   *)
(* at most MaxGroups groups are formed of consecutive pieces.              *)
(***************************************************************************)
CutPoints(c) ==
    {p \in 1..(Len(c) - 1) : IsSpace(c[p]) /\ ~IsSpace(c[p + 1])}

\* the cut points of K in increasing order
RECURSIVE SortedCuts(_)
SortedCuts(K) ==
    IF K = {} THEN <<>>
    ELSE LET m == CHOOSE x \in K : \A y \in K : x <= y
         IN  <<m>> \o SortedCuts(K \ {m})

\* the pieces of c between the cut points of K
PiecesOf(c, K) ==
    LET ks == SortedCuts(K)
        lo(j) == IF j = 1 THEN 1 ELSE ks[j - 1] + 1
        hi(j) == IF j = Len(ks) + 1 THEN Len(c) ELSE ks[j]
    IN  [j \in 1..(Len(ks) + 1) |-> SubSeq(c, lo(j), hi(j))]

\* the groups the capability forms of c when it ends a group at each
\* cut point of K
GroupsOf(c, K) ==
    LET ks == SortedCuts(K)
        lo(j) == IF j = 1 THEN 1 ELSE ks[j - 1] + 1
        hi(j) == IF j = Len(ks) + 1 THEN Len(c) ELSE ks[j]
        inGroup(j) == {p \in CutPoints(c) : lo(j) <= p /\ p < hi(j)}
        shifted(j) == {p - lo(j) + 1 : p \in inGroup(j)}
    IN  [j \in 1..(Len(ks) + 1) |->
            [splits |-> PiecesOf(SubSeq(c, lo(j), hi(j)), shifted(j))]]

\* the sets of at most n cut points of c
RECURSIVE CutSets(_, _)
CutSets(c, n) ==
    IF n = 0 THEN {{}}
    ELSE LET smaller == CutSets(c, n - 1)
         IN  smaller \cup {K \cup {p} : K \in smaller, p \in CutPoints(c)}

SemanticOutcomes(c) ==
    {[kind |-> "error", splits |-> <<>>, what |-> "error"],
     [kind |-> "result", splits |-> <<>>, what |-> "empty"],
     [kind |-> "result", splits |-> << <<>> >>, what |-> "empty"],
     [kind |-> "result",
      splits |-> << <<[splits |-> <<<<" ">>, <<"NUL", "\n">>>>]>> >>,
      what |-> "blank"]}
    \cup {[kind |-> "result", splits |-> <<GroupsOf(c, K)>>, what |-> "groups"] :
            K \in CutSets(c, MaxGroups - 1)}

(***************************************************************************)
(* Stage 3: merge of the undersized chunks.                                *)
(***************************************************************************)
\* key.startswith("Header ")
IsHeaderKey(key) == key \in {HeaderName(i) : i \in 1..7}

\* _get_common_metadata(meta1, meta2)
GetCommonMetadata(meta1, meta2) ==
    LET keep == {key \in DOMAIN meta1 :
                    /\ IsHeaderKey(key)
                    /\ key \in DOMAIN meta2
                    /\ meta2[key] = meta1[key]}
    IN  [key \in keep |-> meta1[key]]

\* mutant: the sum compared with < instead of <=
MergeConditionStrict(buf, next_chunk, cfg) ==
    /\ Size(buf) < cfg.min_chunk_size
    /\ Size(buf) + Size(next_chunk) < cfg.max_chunk_size

\* the condition of the merge in _combine_undersized_chunks
MergeCondition(buf, next_chunk, cfg) ==
    /\ Size(buf) < cfg.min_chunk_size
    /\ Size(buf) + Size(next_chunk) <= cfg.max_chunk_size

\* mutant: = instead of += (the content of the buffer is lost)
MergeIntoAssign(buf, next_chunk) ==
    Doc(<<"\n", "\n">> \o next_chunk.page_content,
        GetCommonMetadata(buf.metadata, next_chunk.metadata))

\* mutant: the contents concatenated without the separator
MergeIntoNoSeparator(buf, next_chunk) ==
    Doc(buf.page_content \o next_chunk.page_content,
        GetCommonMetadata(buf.metadata, next_chunk.metadata))

\* buffer.page_content += "\n\n" + next_chunk.page_content
\* buffer.metadata = self._get_common_metadata(buffer.metadata, next_chunk.metadata)
MergeInto(buf, next_chunk) ==
    Doc(buf.page_content \o <<"\n", "\n">> \o next_chunk.page_content,
        GetCommonMetadata(buf.metadata, next_chunk.metadata))

(***************************************************************************)
(* Stage 4: final metadata.                                                *)
(***************************************************************************)
\* int(key.split(" ")[1]), 0 where it raises
KeyLevel(key) ==
    IF \E i \in 1..7 : HeaderName(i) = key
    THEN CHOOSE i \in 1..7 : HeaderName(i) = key
    ELSE 0

\* _parse_headers_from_metadata(metadata): the (level, value) pairs of the
\* header keys, sorted
ParseHeadersFromMetadata(metadata) ==
    LET levels == {KeyLevel(key) : key \in {k \in DOMAIN metadata : IsHeaderKey(k)}} \ {0}
        ls == SortedCuts(levels)
    IN  [j \in 1..Len(ls) |-> <<ls[j], metadata[HeaderName(ls[j])]>>]

\* the names the module chunking.py binds: its imports and its two classes
ModuleNames ==
    {"logging", "re", "dataclass", "Any", "Dict", "List", "Optional", "Tuple",
     "Document", "MarkdownHeaderTextSplitter", "MarkdownTextSplitter",
     "StatisticalChunker", "HuggingFaceEncoder",
     "MarkdownChunkerConfig", "MarkdownHeaderChunker"}

\* the call process_markdown_headers(...) of _finalize_chunk_metadata looks
\* the name up in the module when it runs
NameBound(name) == name \in ModuleNames

(***************************************************************************)
(* Inputs.                                                                 *)
(***************************************************************************)
\* the lines the input texts are made of: Markdown headers, lines that
\* start with the separator the splitter is given, body lines, blank lines
MarkerLine(title) == HeaderSep(1) \o <<" ">> \o title

InputLines ==
    {<<>>,
     <<"#", " ", "A">>,
     <<"#", "#", " ", "B">>,
     MarkerLine(<<"T">>),
     MarkerLine(<<"U">>),
     <<"t", "x">>,
     <<" ", "w", " ">>}

\* "# A\ntext1\n## B\ntext2"
ScenarioAText ==
    <<"#", " ", "A", "\n", "t", "e", "x", "t", "1", "\n",
      "#", "#", " ", "B", "\n", "t", "e", "x", "t", "2">>

SeqsUpTo(S, n) == UNION {[1..m -> S] : m \in 0..n}

Texts == {Join(ls, NL) : ls \in SeqsUpTo(InputLines, MaxLines)} \cup {ScenarioAText}

Config(max, min, lvl) ==
    [max_chunk_size |-> max, min_chunk_size |-> min, max_header_level |-> lvl]

\* three valid configurations; min_chunk_size = max_chunk_size;
\* max_header_level = 0
Configs ==
    {Config(5, 3, 1), Config(12, 5, 2), Config(30, 14, 6),
     Config(30, 30, 2), Config(12, 5, 0)}

(***************************************************************************)
(* The state of one call of chunk().                                       *)
(***************************************************************************)
VARIABLES
    text,                 \* self.text
    config,               \* self.config
    pc,                   \* where chunk() is
    stages,               \* the stages entered so far, in order
    header_split_chunks,  \* result of stage 1
    i,                    \* _split_oversized_chunks: index of the next chunk
    processed_chunks,     \* _split_oversized_chunks: processed_chunks
    calls,                \* the calls of the semantic-split capability so far
    origin,               \* for each of processed_chunks, the index of the
                          \* chunk of header_split_chunks it comes from
    chunks,               \* argument of _combine_undersized_chunks
    k,                    \* _combine_undersized_chunks: index of next_chunk
    buffer,               \* _combine_undersized_chunks: buffer (<<>> if unset)
    combined,             \* _combine_undersized_chunks: combined
    span,                 \* number of input chunks merged into buffer
    spans,                \* number of input chunks in each chunk of combined
    merges,               \* number of merges done
    final_chunks,         \* what chunk() returns
    error                 \* the exception chunk() raised, "" if none

vars == <<text, config, pc, stages, header_split_chunks, i, processed_chunks,
          calls, origin, chunks, k, buffer, combined, span, spans, merges,
          final_chunks, error>>

semanticVars == <<header_split_chunks, i, processed_chunks, calls, origin>>
combineVars == <<chunks, k, buffer, combined, span, spans, merges>>

Fresh ==
    /\ stages = <<>>
    /\ header_split_chunks = <<>>
    /\ i = 1
    /\ processed_chunks = <<>>
    /\ calls = <<>>
    /\ origin = <<>>
    /\ k = 1
    /\ buffer = <<>>
    /\ combined = <<>>
    /\ span = 0
    /\ spans = <<>>
    /\ merges = 0
    /\ final_chunks = <<>>
    /\ error = ""

\* MarkdownHeaderChunker(text, config) constructed, chunk() called
Init ==
    /\ text \in Texts
    /\ config \in Configs
    /\ pc = "start"
    /\ chunks = <<>>
    /\ Fresh

\* stage 1: header_split_chunks = await self._split_by_headers(self.text)
SplitByHeaders ==
    /\ pc = "start"
    /\ header_split_chunks' = SplitByHeadersRec(text, 1, config)
    /\ stages' = Append(stages, "headers")
    /\ pc' = "semantic"
    /\ UNCHANGED <<text, config, i, processed_chunks, calls, origin, combineVars,
                   final_chunks, error>>

\* what the capability handed back: the text of each group, in its order
\* (nothing when it raised or returned no list)
Returned(outcome) ==
    IF outcome.kind = "error" \/ outcome.splits = <<>> THEN <<>>
    ELSE [g \in 1..Len(outcome.splits[1]) |->
            Join(outcome.splits[1][g].splits, <<>>)]

\* stage 2, a chunk within the size: processed_chunks.append(chunk)
PassThrough ==
    /\ pc = "semantic"
    /\ i <= Len(header_split_chunks)
    /\ ~Oversized(header_split_chunks[i], config)
    /\ processed_chunks' = Append(processed_chunks, header_split_chunks[i])
    /\ origin' = Append(origin, i)
    /\ i' = i + 1
    /\ stages' = IF i = 1 THEN Append(stages, "semantic") ELSE stages
    /\ UNCHANGED <<text, config, pc, header_split_chunks, calls, combineVars,
                   final_chunks, error>>

\* stage 2, an oversized chunk:
\* processed_chunks.extend(await self._split_semantically(chunk))
SplitOversized ==
    /\ pc = "semantic"
    /\ i <= Len(header_split_chunks)
    /\ Oversized(header_split_chunks[i], config)
    /\ \E outcome \in SemanticOutcomes(header_split_chunks[i].page_content) :
          LET split_chunks == SplitSemantically(header_split_chunks[i], outcome)
          IN  /\ processed_chunks' = processed_chunks \o split_chunks
              /\ origin' = origin \o [n \in 1..Len(split_chunks) |-> i]
              /\ calls' = Append(calls, [chunk |-> i, what |-> outcome.what,
                                         returned |-> Returned(outcome)])
    /\ i' = i + 1
    /\ stages' = IF i = 1 THEN Append(stages, "semantic") ELSE stages
    /\ UNCHANGED <<text, config, pc, header_split_chunks, combineVars,
                   final_chunks, error>>

\* stage 2 returns processed_chunks, stage 3 is called with it
SplitOversizedReturn ==
    /\ pc = "semantic"
    /\ i > Len(header_split_chunks)
    /\ chunks' = processed_chunks
    /\ stages' = IF i = 1 THEN Append(stages, "semantic") ELSE stages
    /\ pc' = "combine"
    /\ UNCHANGED <<text, config, semanticVars, k, buffer, combined, span, spans,
                   merges, final_chunks, error>>

\* _combine_undersized_chunks: if not chunks: return []; buffer = chunks[0]
CombineStart ==
    /\ pc = "combine"
    /\ stages' = Append(stages, "combine")
    /\ IF chunks = <<>>
       THEN /\ pc' = "finalize"
            /\ UNCHANGED <<buffer, span>>
       ELSE /\ pc' = "combining"
            /\ buffer' = <<chunks[1]>>
            /\ span' = 1
    /\ k' = 2
    /\ UNCHANGED <<text, config, semanticVars, chunks, combined, spans, merges,
                   final_chunks, error>>

\* the loop body, the merge branch
CombineMerge ==
    /\ pc = "combining"
    /\ k <= Len(chunks)
    /\ MergeCondition(buffer[1], chunks[k], config)
    /\ buffer' = <<MergeInto(buffer[1], chunks[k])>>
    /\ span' = span + 1
    /\ merges' = merges + 1
    /\ k' = k + 1
    /\ UNCHANGED <<text, config, pc, stages, semanticVars, chunks, combined,
                   spans, final_chunks, error>>

\* the loop body, the else branch: combined.append(buffer); buffer = next_chunk
CombineFlush ==
    /\ pc = "combining"
    /\ k <= Len(chunks)
    /\ ~MergeCondition(buffer[1], chunks[k], config)
    /\ combined' = Append(combined, buffer[1])
    /\ spans' = Append(spans, span)
    /\ buffer' = <<chunks[k]>>
    /\ span' = 1
    /\ k' = k + 1
    /\ UNCHANGED <<text, config, pc, stages, semanticVars, chunks, merges,
                   final_chunks, error>>

\* mutant: the buffer is not flushed after the loop
CombineReturnNoFlush ==
    /\ pc = "combining"
    /\ k > Len(chunks)
    /\ pc' = "finalize"
    /\ UNCHANGED <<text, config, stages, semanticVars, chunks, k, buffer, span,
                   combined, spans, merges, final_chunks, error>>

\* after the loop: combined.append(buffer); return combined
CombineReturn ==
    /\ pc = "combining"
    /\ k > Len(chunks)
    /\ combined' = Append(combined, buffer[1])
    /\ spans' = Append(spans, span)
    /\ pc' = "finalize"
    /\ UNCHANGED <<text, config, stages, semanticVars, chunks, k, buffer, span,
                   merges, final_chunks, error>>

\* stage 4, _finalize_chunk_metadata: with no chunk the loop body does not
\* run; with a chunk it calls process_markdown_headers, a name the module
\* does not bind, and the NameError leaves chunk()
FinalizeChunkMetadata ==
    /\ pc = "finalize"
    /\ stages' = Append(stages, "finalize")
    /\ IF combined = <<>> \/ NameBound("process_markdown_headers")
       THEN /\ final_chunks' = combined
            /\ pc' = "done"
            /\ UNCHANGED error
       ELSE /\ error' = "NameError"
            /\ pc' = "failed"
            /\ UNCHANGED final_chunks
    /\ UNCHANGED <<text, config, semanticVars, combineVars>>

Next ==
    \/ SplitByHeaders
    \/ PassThrough
    \/ SplitOversized
    \/ SplitOversizedReturn
    \/ CombineStart
    \/ CombineMerge
    \/ CombineFlush
    \/ CombineReturn
    \/ FinalizeChunkMetadata

Spec == Init /\ [][Next]_vars

(***************************************************************************)
(* ChunkMerger on its own: _combine_undersized_chunks called with a list   *)
(* of fragments.                                                           *)
(***************************************************************************)
Rep(c, n) == [j \in 1..n |-> c]

Meta1(t1) == [key \in {"Header 1"} |-> t1]
Meta2(t1, t2) == [key \in {"Header 1", "Header 2"} |->
                    IF key = "Header 1" THEN t1 ELSE t2]

MergeMetas == {EmptyMeta, Meta1(<<"A">>), Meta2(<<"A">>, <<"B">>), Meta2(<<"C">>, <<"B">>)}

MergeDocs == {Doc(Rep("a", n), m) : n \in {2, 4, 10, 13}, m \in MergeMetas}

MergeConfigs == {Config(5, 3, 1), Config(12, 5, 2)}

\* three adjacent fragments of size 100, min_chunk_size 250, max_chunk_size 500
ScenarioBChunks == [j \in 1..3 |-> Doc(Rep("a", 100), EmptyMeta)]
ScenarioBConfig == Config(500, 250, 6)

InitMerge ==
    /\ \/ chunks \in SeqsUpTo(MergeDocs, MaxFrags) /\ config \in MergeConfigs
       \/ chunks = ScenarioBChunks /\ config = ScenarioBConfig
    /\ text = <<>>
    /\ pc = "combine"
    /\ Fresh

NextMerge ==
    \/ CombineStart
    \/ CombineMerge
    \/ CombineFlush
    \/ CombineReturn

\* the loop of a synchronous function runs on until it returns
MergeSpec == InitMerge /\ [][NextMerge]_vars /\ WF_vars(NextMerge)

(***************************************************************************)
(* Properties.                                                             *)
(***************************************************************************)
RECURSIVE SumSeq(_)
SumSeq(ns) == IF ns = <<>> THEN 0 ELSE Head(ns) + SumSeq(Tail(ns))

\* index in chunks of the last fragment that went into combined[j]
EndOf(j) == SumSeq(SubSeq(spans, 1, j))
\* index in chunks of the first fragment that went into combined[j]
StartOf(j) == EndOf(j) - spans[j] + 1

SizesOf(docs) == [j \in 1..Len(docs) |-> Size(docs[j])]
ContentsOf(docs) == [j \in 1..Len(docs) |-> docs[j].page_content]

\* the Configuration invariant: min_chunk_size < max_chunk_size and
\* max_header_level >= 1
ValidConfig(cfg) ==
    cfg.min_chunk_size < cfg.max_chunk_size /\ cfg.max_header_level >= 1

\* the merge stage has returned
Merged == pc \in {"finalize", "done", "failed"}

InBand(doc) ==
    config.min_chunk_size <= Size(doc) /\ Size(doc) <= config.max_chunk_size

\* C1: with min_chunk_size < max_chunk_size, every chunk the merge returns,
\* except the last, has a size within [min_chunk_size, max_chunk_size] or
\* its size plus the size of the fragment that follows it exceeds
\* max_chunk_size.
C1_ChunksInBandOrUnmergeable ==
    (Merged /\ config.min_chunk_size < config.max_chunk_size) =>
        \A j \in 1..(Len(combined) - 1) :
            \/ InBand(combined[j])
            \/ Size(combined[j]) + Size(chunks[EndOf(j) + 1]) > config.max_chunk_size

\* a run where a chunk below min_chunk_size was flushed because the next
\* fragment did not fit
C1_Witness ==
    /\ Merged /\ config.min_chunk_size < config.max_chunk_size
    /\ \E j \in 1..(Len(combined) - 1) :
          /\ Size(combined[j]) < config.min_chunk_size
          /\ Size(combined[j]) + Size(chunks[EndOf(j) + 1]) > config.max_chunk_size

\* the common prefix of two sequences
RECURSIVE CommonPrefix(_, _)
CommonPrefix(p1, p2) ==
    IF p1 = <<>> \/ p2 = <<>> \/ Head(p1) # Head(p2) THEN <<>>
    ELSE <<Head(p1)>> \o CommonPrefix(Tail(p1), Tail(p2))

\* C2: when the merge takes next_chunk into buffer, the header path of the
\* buffer becomes the common prefix of the two header paths (the (level,
\* title) pairs from the lowest level on, up to the first level where the
\* paths differ or one of them ends).
C2_MergedMetadataIsCommonPrefix ==
    [][(pc = "combining" /\ merges' = merges + 1) =>
          ParseHeadersFromMetadata(buffer'[1].metadata)
            = CommonPrefix(ParseHeadersFromMetadata(buffer[1].metadata),
                           ParseHeadersFromMetadata(chunks[k].metadata))]_vars

\* C8 (as stated): scenario B gives one chunk of size 300, and the size of
\* a merged chunk is the sum of the sizes of the fragments merged into it.
C8_MergedSizeIsSumOfSizes ==
    Merged =>
        /\ \A j \in 1..Len(combined) :
              Size(combined[j])
                = SumSeq(SizesOf(SubSeq(chunks, StartOf(j), EndOf(j))))
        /\ (chunks = ScenarioBChunks /\ config = ScenarioBConfig) =>
              (Len(combined) = 1 /\ Size(combined[1]) = 300)

\* C8 (amended): scenario B gives one chunk, of size 304; the size of a
\* merged chunk is the sum of the sizes of its fragments plus 2 for each
\* merge (the "\n\n" separator), and its content is those fragments joined
\* by the separator.
C8_MergedSizeIsSumPlusSeparators ==
    Merged =>
        /\ \A j \in 1..Len(combined) :
              /\ Size(combined[j])
                   = SumSeq(SizesOf(SubSeq(chunks, StartOf(j), EndOf(j))))
                       + 2 * (spans[j] - 1)
              /\ combined[j].page_content
                   = Join(ContentsOf(SubSeq(chunks, StartOf(j), EndOf(j))),
                          <<"\n", "\n">>)
        /\ (chunks = ScenarioBChunks /\ config = ScenarioBConfig) =>
              (Len(combined) = 1 /\ Size(combined[1]) = 304)

\* scenario B has been merged
C8_Witness ==
    /\ Merged /\ chunks = ScenarioBChunks /\ config = ScenarioBConfig
    /\ merges = 2

\* C9: the merge of N fragments ends and returns M chunks with M <= N,
\* M >= 1 if N >= 1, M = 0 if N = 0 and M = N - (number of merges); the last
\* fragment is in the last chunk returned, whatever the size of that chunk.
C9_MergeEndsWithBoundedOutput ==
    /\ <>Merged
    /\ [](Merged =>
            /\ Len(combined) <= Len(chunks)
            /\ (Len(chunks) >= 1 => Len(combined) >= 1)
            /\ (Len(chunks) = 0 => Len(combined) = 0)
            /\ Len(combined) = Len(chunks) - merges
            /\ (Len(chunks) >= 1 =>
                  /\ EndOf(Len(combined)) = Len(chunks)
                  /\ LET last == combined[Len(combined)].page_content
                         frag == chunks[Len(chunks)].page_content
                     IN  SubSeq(last, Len(last) - Len(frag) + 1, Len(last)) = frag))

\* a merge that returned fewer chunks than fragments, the last of them
\* still below min_chunk_size
C9_Witness ==
    /\ Merged
    /\ merges > 0 /\ Len(combined) >= 2
    /\ Size(combined[Len(combined)]) < config.min_chunk_size

Flatten(parts) == Join(parts, <<>>)

\* the characters of s that are neither white space nor NUL
NonBlank(s) == SelectSeq(s, LAMBDA c : ~IsSpace(c) /\ c # "NUL")

C4_InvalidConfigFailsBeforeProcessing ==
    ~ValidConfig(config) => (stages = <<>> /\ pc \in {"start", "failed"})

\* C5: with a valid configuration chunk() runs header split, semantic
\* split, merge and finalize in this order and returns; it never fails.
C5_ValidConfigNeverFails ==
    ValidConfig(config) =>
        /\ pc # "failed"
        /\ error = ""
        /\ \E n \in 0..4 :
              stages = SubSeq(<<"headers", "semantic", "combine", "finalize">>, 1, n)
        /\ (pc = "done" => Len(stages) = 4)

Unusable == {"error", "empty", "blank"}

\* C6: when the capability raises, returns no group, or returns only groups
\* that are empty once stripped, the semantic stage puts out exactly the
\* oversized chunk it was given; so as long as every call was like that,
\* the output of the stage is its input, chunk by chunk.
C6_DegradedSplitKeepsChunk ==
    /\ [][(Len(calls') = Len(calls) + 1 /\ calls'[Len(calls')].what \in Unusable) =>
            processed_chunks' = Append(processed_chunks, header_split_chunks[i])]_vars
    /\ []((\A c \in 1..Len(calls) : calls[c].what \in Unusable) =>
            processed_chunks = SubSeq(header_split_chunks, 1, i - 1))

\* the semantic stage has ended after at least two calls, every one of
\* them without a usable result, among them an error and a blank result
C6_Witness ==
    /\ pc = "combine"
    /\ Len(calls) >= 2
    /\ \A c \in 1..Len(calls) : calls[c].what \in Unusable
    /\ \E c \in 1..Len(calls) : calls[c].what = "error"
    /\ \E c \in 1..Len(calls) : calls[c].what = "blank"
    /\ chunks = header_split_chunks

\* C7: scenario A gives two fragments, the first with the path [(1, "A")]
\* and the text before the nested header, the second with the path
\* [(1, "A"), (2, "B")] and the "## B\ntext2" part.
C7_ScenarioATwoFragments ==
    (text = ScenarioAText /\ config = Config(30, 14, 6) /\ pc # "start") =>
        /\ Len(header_split_chunks) = 2
        /\ header_split_chunks[1] = Doc(SubSeq(ScenarioAText, 1, 9), Meta1(<<"A">>))
        /\ header_split_chunks[2] = Doc(SubSeq(ScenarioAText, 11, 20),
                                        Meta2(<<"A">>, <<"B">>))

\* C10: with a valid configuration and an empty text chunk() returns an
\* empty chunk sequence; it does not call the capability and raises nothing.
C10_EmptyTextGivesNoChunks ==
    (ValidConfig(config) /\ text = <<>>) =>
        /\ pc # "failed" /\ error = ""
        /\ calls = <<>>
        /\ header_split_chunks = <<>> /\ combined = <<>>
        /\ final_chunks = <<>>

\* chunk() has returned for an empty text and a valid configuration
C10_Witness ==
    /\ ValidConfig(config) /\ text = <<>>
    /\ pc = "done"
    /\ Len(stages) = 4

\* C11: when every fragment given to the merge has a size of at most
\* max_chunk_size, every chunk the merge returns has a size of at most
\* max_chunk_size.
C11_MergedChunksWithinMax ==
    (Merged /\ \A f \in 1..Len(chunks) : Size(chunks[f]) <= config.max_chunk_size) =>
        \A j \in 1..Len(combined) : Size(combined[j]) <= config.max_chunk_size

\* the header split has just returned
HeadersSplit == pc = "semantic" /\ i = 1

DocsOfTrace(tr) == [n \in 1..Len(tr) |-> tr[n].doc]

\* every key of the metadata of parent is in the metadata of doc
KeepsKeys(doc, parent) == DOMAIN parent.metadata \subseteq DOMAIN doc.metadata

\* C12: for max_header_level >= 1, _split_by_headers(text, 1) returns, no
\* call has a level above max_header_level + 1, each level of the recursion
\* was entered for an oversized fragment of the level before; a fragment
\* above max_chunk_size is in the result only from the call at level
\* max_header_level + 1, where it is the content of the fragment of level
\* max_header_level, unchanged, with the header metadata of its parents; a
\* fragment emitted at a level up to max_header_level is within
\* max_chunk_size.
C12_OversizedOnlyAtMaxDepth ==
    (HeadersSplit /\ config.max_header_level >= 1) =>
        LET tr == SplitTraceRec(text, 1, config)
            deepest == config.max_header_level + 1
        IN  /\ DocsOfTrace(tr) = header_split_chunks
            /\ \A n \in 1..Len(tr) :
                  LET e == tr[n] IN
                  /\ e.level <= deepest
                  /\ e.level = Len(e.parents) + 1
                  /\ \A q \in 1..Len(e.parents) : Oversized(e.parents[q], config)
                  /\ Oversized(e.doc, config) => e.level = deepest
                  /\ e.level <= config.max_header_level => ~Oversized(e.doc, config)
                  /\ e.level = deepest =>
                        /\ e.doc.page_content = e.parents[Len(e.parents)].page_content
                        /\ e.doc.metadata = e.parents[Len(e.parents)].metadata
                        /\ \A q \in 1..Len(e.parents) : KeepsKeys(e.doc, e.parents[q])

\* a header split with max_header_level >= 2 that returned a fragment of
\* level 1 and an oversized fragment with header metadata, left as it was
\* at the deepest level
C12_Witness ==
    /\ HeadersSplit /\ config.max_header_level >= 2
    /\ LET tr == SplitTraceRec(text, 1, config)
       IN  /\ \E n \in 1..Len(tr) : tr[n].level = 1
           /\ \E n \in 1..Len(tr) :
                 /\ tr[n].level = config.max_header_level + 1
                 /\ Oversized(tr[n].doc, config)
                 /\ tr[n].doc.metadata # EmptyMeta

\* the chunks of processed_chunks that come from header_split_chunks[j],
\* in their order in processed_chunks
PiecesFrom(j) ==
    LET at == SortedCuts({n \in 1..Len(origin) : origin[n] = j})
    IN  [n \in 1..Len(at) |-> processed_chunks[at[n]]]

\* the texts of rs without NUL and surrounding white space, the empty ones
\* left out, in the order of rs
UsableTexts(rs) ==
    SelectSeq([n \in 1..Len(rs) |-> Strip(RemoveNul(rs[n]))], LAMBDA x : x # <<>>)

\* C13: in the semantic stage the capability is called for a chunk if and
\* only if its size exceeds max_chunk_size; every other chunk is in the
\* output unchanged; the output is in document order (what comes from chunk
\* j1 precedes what comes from chunk j2 > j1), and the pieces of a split
\* chunk are in the order the capability returned them, each with the
\* metadata of the chunk.
C13_SemanticStageOrderAndCalls ==
    pc = "semantic" =>
        /\ Len(origin) = Len(processed_chunks)
        /\ \A n \in 1..(Len(origin) - 1) : origin[n] <= origin[n + 1]
        /\ {origin[n] : n \in 1..Len(origin)} = 1..(i - 1)
        /\ \A c \in 1..(Len(calls) - 1) : calls[c].chunk < calls[c + 1].chunk
        /\ \A j \in 1..(i - 1) :
              LET chunk == header_split_chunks[j] IN
              /\ (\E c \in 1..Len(calls) : calls[c].chunk = j)
                    <=> Size(chunk) > config.max_chunk_size
              /\ Size(chunk) <= config.max_chunk_size => PiecesFrom(j) = <<chunk>>
        /\ \A c \in 1..Len(calls) :
              LET chunk == header_split_chunks[calls[c].chunk]
                  usable == UsableTexts(calls[c].returned)
              IN  PiecesFrom(calls[c].chunk) =
                     IF usable = <<>> THEN <<chunk>>
                     ELSE [n \in 1..Len(usable) |-> Doc(usable[n], chunk.metadata)]

\* the end of a semantic stage that passed one chunk through and split a
\* later one, with header metadata, into two pieces
C13_Witness ==
    /\ pc = "semantic" /\ i > Len(header_split_chunks)
    /\ \E j \in 1..Len(header_split_chunks) :
          Size(header_split_chunks[j]) <= config.max_chunk_size
    /\ \E c \in 1..Len(calls) :
          /\ calls[c].chunk > 1
          /\ Len(PiecesFrom(calls[c].chunk)) = 2
          /\ header_split_chunks[calls[c].chunk].metadata # EmptyMeta
          /\ PiecesFrom(calls[c].chunk)[1].metadata # EmptyMeta

=============================================================================
